---- MODULE Spec2Model ----
(***************************************************************************)
(* Model of the regexp router nodes of caicloud/nirvana                     *)
(* (service/rest/router/regexp.go): regexpNode and fullMatchRegexpNode,     *)
(* their Match and Merge methods.  A path is a sequence of one-character    *)
(* strings; Go's 0-based indices are kept and converted at each slice.      *)
(* The module also models the Pacer (unnamed/part_000): its three channels, *)
(* the run goroutine and the callers of Next, Pause, Resume and Stop.       *)
(***************************************************************************)
EXTENDS Integers, Sequences, FiniteSets, TLC

VARIABLES
    self,       \* the receiver node n
    built,      \* the receiver as the build phase left it
    other,      \* the node r handed to Merge
    phase,      \* "built", then "matched" (a Match call returned) or "merged" then "rematched"
    lastMatch,  \* input and outcome of the last sequential Match call
    lastMerge,  \* input and outcome of the last Merge call
    pc,         \* concurrent callers: position of each caller inside Match
    call,       \* concurrent callers: arguments (ctx, path, fault) of each caller
    loc,        \* concurrent callers: locals (index, result, e, err, i) of each caller
    sinks,      \* concurrent callers: each caller's own Container and call log
    gateClosed, \* Pacer: close(p.gate) has run
    pauseLen,   \* Pacer: number of values buffered in p.pause
    pausedLen,  \* Pacer: number of values buffered in p.paused
    runPc,      \* Pacer: position of the run goroutine
    taskPc,     \* Pacer: position of each paced goroutine
    ctl,        \* Pacer: position of the goroutine that calls Pause and Resume
    sinceRelease, \* Pacer: what run did since Next last returned ("none" before the first)
    gap         \* Pacer: sinceRelease as it was when Next last returned

rvars == <<self, built, other, phase, lastMatch, lastMerge, pc, call, loc, sinks>>
pvars == <<gateClosed, pauseLen, pausedLen, runPc, taskPc, ctl, sinceRelease, gap>>
vars == <<rvars, pvars>>

-----------------------------------------------------------------------------
(* Bounds *)

\* longest path enumerated over Alphabet
MaxLen == 3
\* number of concurrent callers of Match
NumCallers == 2
\* number of goroutines that call Pacer.Next
NumTasks == 2

-----------------------------------------------------------------------------
(* Strings *)

Alphabet == {"/", "4", "a"}
Digit == {"0", "1", "2", "3", "4", "5", "6", "7", "8", "9"}
Letter == {"a", "b", "c", "d", "e", "f", "g", "h", "i", "j", "k", "l", "m",
           "n", "o", "p", "q", "r", "s", "t", "u", "v", "w", "x", "y", "z"}

BoundedPaths == UNION {[1..n -> Alphabet] : n \in 0..MaxLen}

ScenarioPaths ==
    { <<"/", "4", "2", "/", "o", "r", "d", "e", "r", "s">>,
      <<"4", "2", "/", "o", "r", "d", "e", "r", "s">>,
      <<"/", "a", "b", "c">>,
      <<"a", "b", "c">>,
      <<"/", "a", ".", "b", "*", "c", "/", "x">>,
      <<"a", ".", "b", "*", "c", "/", "x">> }

Paths == BoundedPaths \cup ScenarioPaths

\* strings.IndexByte(s, c): 0-based index of the first c in s, or -1
IndexByte(s, c) ==
    IF \E i \in 1..Len(s) : s[i] = c
    THEN (CHOOSE i \in 1..Len(s) : s[i] = c /\ \A j \in 1..(i - 1) : s[j] # c) - 1
    ELSE -1

\* Go slice s[lo:hi] with 0-based lo, hi
Slice(s, lo, hi) == SubSeq(s, lo + 1, hi)

\* strings.HasPrefix
HasPrefix(s, p) == Len(p) <= Len(s) /\ SubSeq(s, 1, Len(p)) = p

-----------------------------------------------------------------------------
(* regexp.Regexp.FindStringSubmatch for the patterns the nodes are built    *)
(* with.  The result is <<whole, group1, ...>>; <<>> stands for nil.        *)

ExpDigits == "([0-9]+)"
ExpDigitsAnchored == "^([0-9]+)$"
ExpLettersDigits == "^([a-z]*)([0-9]*)$"
Exps == {ExpDigits, ExpDigitsAnchored, ExpLettersDigits}

AllIn(s, class) == \A i \in 1..Len(s) : s[i] \in class

\* length of the longest prefix of s made of characters of class
PrefixRun(s, class) ==
    IF AllIn(s, class) THEN Len(s)
    ELSE (CHOOSE i \in 1..Len(s) : s[i] \notin class /\ \A j \in 1..(i - 1) : s[j] \in class) - 1

\* 0-based index of the first character of s that belongs to class, or -1
FirstIn(s, class) ==
    IF \E i \in 1..Len(s) : s[i] \in class
    THEN (CHOOSE i \in 1..Len(s) : s[i] \in class /\ \A j \in 1..(i - 1) : s[j] \notin class) - 1
    ELSE -1

FindStringSubmatch(exp, s) ==
    CASE exp = ExpDigits ->
            \* unanchored: leftmost digit, then the longest run of digits
            LET start == FirstIn(s, Digit)
                rest  == SubSeq(s, start + 1, Len(s))
                m     == SubSeq(rest, 1, PrefixRun(rest, Digit))
            IN  IF start < 0 THEN <<>> ELSE <<m, m>>
      [] exp = ExpDigitsAnchored ->
            IF Len(s) > 0 /\ AllIn(s, Digit) THEN <<s, s>> ELSE <<>>
      [] exp = ExpLettersDigits ->
            LET k    == PrefixRun(s, Letter)
                rest == SubSeq(s, k + 1, Len(s))
            IN  IF AllIn(rest, Digit) THEN <<s, SubSeq(s, 1, k), rest>> ELSE <<>>
      [] OTHER -> <<>>

-----------------------------------------------------------------------------
(* Values shared by the nodes and their collaborators *)

Keys == {"id", "name"}
Contexts == {"c1", "c2"}

\* a Container value that was never Set
Unset == <<"unset">>
EmptyContainer == [k \in Keys |-> Unset]

\* Container.Set(key, value): insert or overwrite
Set(c, key, value) == [c EXCEPT ![key] = value]

NoErr == [type |-> "nil", args |-> <<>>]
routerNotFound == [type |-> "routerNotFound", args |-> <<>>]
noExecutor == [type |-> "noExecutor", args |-> <<>>]
packFailed == [type |-> "packFailed", args |-> <<>>]
conflictHandler == [type |-> "conflictHandler", args |-> <<>>]

NilExecutor == [base |-> "nil", mws |-> <<>>]

\* no call of handler.pack fails
NoFault == -1

\* one entry of the call log: a Set on the Container or a call of a collaborator,
\* made by the node at depth d of the chain (the receiver of the outer call is 0)
LogEntry(op, d, key, val) == [op |-> op, d |-> d, key |-> key, val |-> val]

Result(e, err, st) == [e |-> e, err |-> err, st |-> st]

-----------------------------------------------------------------------------
(* The handler collaborator: the handlers registered at a node, in order,   *)
(* and the node's middlewares.                                              *)

\* handler.pack(e): wrap this node's middlewares around e; the call made by the
\* node at depth f returns an error
pack(h, r, d, f) ==
    LET st == [r.st EXCEPT !.log = Append(@, LogEntry("pack", d, "", <<>>))]
    IN  IF d = f
        THEN Result(NilExecutor, packFailed, st)
        ELSE Result([r.e EXCEPT !.mws = h.middlewares \o @], NoErr, st)

\* handler.unionExecutor(ctx): the first registered handler that accepts ctx
unionExecutor(h, ctx, st0, d) ==
    LET st == [st0 EXCEPT !.log = Append(@, LogEntry("unionExecutor", d, "", <<>>))]
        ok == {i \in 1..Len(h.executors) : ctx \in h.executors[i].accepts}
    IN  IF ok = {}
        THEN Result(NilExecutor, noExecutor, st)
        ELSE LET i == CHOOSE i \in ok : \A j \in ok : i <= j
             IN  Result([base |-> h.executors[i].id, mws |-> <<>>], NoErr, st)

-----------------------------------------------------------------------------
(* Match *)

RECURSIVE children_MatchFrom(_, _, _, _, _, _, _)

\* children.Match(ctx, c, path), called by the node at depth d
children_Match(children, ctx, st0, path, d, f) ==
    children_MatchFrom(children, 1, ctx,
        [st0 EXCEPT !.log = Append(@, LogEntry("children.Match", d, "", path))],
        path, d + 1, f)

\* the loop with the position ignored: every key gets the whole match
SetValues_WholeMatch(indices, k, result, st, d) ==
    IF k > Len(indices) THEN st
    ELSE LET F[j \in 1..(Len(indices) + 1)] ==
                 IF j = 1 THEN st
                 ELSE [c |-> Set(F[j - 1].c, indices[j - 1].Key, result[1]),
                       log |-> Append(F[j - 1].log, LogEntry("Set", d, indices[j - 1].Key, result[1]))]
         IN  F[Len(indices) + 1]

\* the loop "for _, i := range n.indices { c.Set(i.Key, result[i.Pos]) }"
RECURSIVE SetValues(_, _, _, _, _)
SetValues(indices, k, result, st, d) ==
    IF k > Len(indices) THEN st
    ELSE LET i == indices[k]
             v == result[i.Pos + 1]
         IN  SetValues(indices, k + 1, result,
                 [c |-> Set(st.c, i.Key, v),
                  log |-> Append(st.log, LogEntry("Set", d, i.Key, v))], d)

\* regexpNode.Match writing its captures before the downstream step
regexpNode_Match_SetFirst(n, ctx, st, path, d, f) ==
    LET idx    == IndexByte(path, "/")
        index  == IF idx < 0 THEN Len(path) ELSE idx
        result == FindStringSubmatch(n.regexp, Slice(path, 0, index))
        st1    == SetValues(n.indices, 1, result, st, d)
        down   == IF index < Len(path)
                  THEN LET r == children_Match(n.children, ctx, st1, Slice(path, index, Len(path)), d, f)
                       IN  IF r.err = NoErr THEN pack(n.handler, r, d, f) ELSE r
                  ELSE unionExecutor(n.handler, ctx, st1, d)
    IN  IF result = <<>>
        THEN Result(NilExecutor, routerNotFound, st)
        ELSE IF down.err # NoErr
        THEN Result(NilExecutor, down.err, down.st)
        ELSE Result(down.e, NoErr, down.st)

\* regexpNode.Match running the pattern on the whole path, not on the segment
regexpNode_Match_WholePath(n, ctx, st, path, d, f) ==
    LET idx    == IndexByte(path, "/")
        index  == IF idx < 0 THEN Len(path) ELSE idx
        result == FindStringSubmatch(n.regexp, path)
        down   == IF index < Len(path)
                  THEN LET r == children_Match(n.children, ctx, st, Slice(path, index, Len(path)), d, f)
                       IN  IF r.err = NoErr THEN pack(n.handler, r, d, f) ELSE r
                  ELSE unionExecutor(n.handler, ctx, st, d)
    IN  IF result = <<>>
        THEN Result(NilExecutor, routerNotFound, st)
        ELSE IF down.err # NoErr
        THEN Result(NilExecutor, down.err, down.st)
        ELSE Result(down.e, NoErr, SetValues(n.indices, 1, result, down.st, d))

\* regexpNode.Match handing children the rest of the path without its separator
regexpNode_Match_DropSeparator(n, ctx, st, path, d, f) ==
    LET idx    == IndexByte(path, "/")
        index  == IF idx < 0 THEN Len(path) ELSE idx
        result == FindStringSubmatch(n.regexp, Slice(path, 0, index))
        down   == IF index < Len(path)
                  THEN LET r == children_Match(n.children, ctx, st, Slice(path, index + 1, Len(path)), d, f)
                       IN  IF r.err = NoErr THEN pack(n.handler, r, d, f) ELSE r
                  ELSE unionExecutor(n.handler, ctx, st, d)
    IN  IF result = <<>>
        THEN Result(NilExecutor, routerNotFound, st)
        ELSE IF down.err # NoErr
        THEN Result(NilExecutor, down.err, down.st)
        ELSE Result(down.e, NoErr, SetValues(n.indices, 1, result, down.st, d))

\* regexpNode.Match retrying the node as the final segment when its children fail
regexpNode_Match_Backtrack(n, ctx, st, path, d, f) ==
    LET idx    == IndexByte(path, "/")
        index  == IF idx < 0 THEN Len(path) ELSE idx
        result == FindStringSubmatch(n.regexp, Slice(path, 0, index))
        down   == IF index < Len(path)
                  THEN LET r == children_Match(n.children, ctx, st, Slice(path, index, Len(path)), d, f)
                       IN  IF r.err = NoErr THEN pack(n.handler, r, d, f)
                           ELSE unionExecutor(n.handler, ctx, r.st, d)
                  ELSE unionExecutor(n.handler, ctx, st, d)
    IN  IF result = <<>>
        THEN Result(NilExecutor, routerNotFound, st)
        ELSE IF down.err # NoErr
        THEN Result(NilExecutor, down.err, down.st)
        ELSE Result(down.e, NoErr, SetValues(n.indices, 1, result, down.st, d))

\* (n *regexpNode) Match(ctx, c, path); st holds the Container c
regexpNode_Match(n, ctx, st, path, d, f) ==
    LET idx    == IndexByte(path, "/")
        index  == IF idx < 0 THEN Len(path) ELSE idx
        segment == Slice(path, 0, index)
        result == FindStringSubmatch(n.regexp, segment)
        down   == IF index < Len(path)
                  THEN LET r == children_Match(n.children, ctx, st, Slice(path, index, Len(path)), d, f)
                       IN  IF r.err = NoErr THEN pack(n.handler, r, d, f) ELSE r
                  ELSE unionExecutor(n.handler, ctx, st, d)
    IN  IF result = <<>>
        THEN Result(NilExecutor, routerNotFound, st)
        ELSE IF down.err # NoErr
        THEN Result(NilExecutor, down.err, down.st)
        ELSE Result(down.e, NoErr, SetValues(n.indices, 1, result, down.st, d))

\* (n *fullMatchRegexpNode) Match(ctx, c, path)
fullMatchRegexpNode_Match(n, ctx, st, path, d, f) ==
    LET idx   == IndexByte(path, "/")
        index == IF idx > 0 THEN idx ELSE Len(path)
        down  == IF idx > 0
                 THEN LET r == children_Match(n.children, ctx, st, Slice(path, idx, Len(path)), d, f)
                      IN  IF r.err = NoErr THEN pack(n.handler, r, d, f) ELSE r
                 ELSE unionExecutor(n.handler, ctx, st, d)
        v     == Slice(path, 0, index)
    IN  IF down.err # NoErr
        THEN Result(NilExecutor, down.err, down.st)
        ELSE Result(down.e, NoErr,
                 [c |-> Set(down.st.c, n.key, v),
                  log |-> Append(down.st.log, LogEntry("Set", d, n.key, v))])

\* the sibling node kind that matches a literal: it consumes its prefix and
\* hands the rest to its children, or resolves the terminal handler
stringNode_Match(n, ctx, st, path, d, f) ==
    IF ~HasPrefix(path, n.prefix)
    THEN Result(NilExecutor, routerNotFound, st)
    ELSE IF Len(path) > Len(n.prefix)
    THEN LET r == children_Match(n.children, ctx, st, Slice(path, Len(n.prefix), Len(path)), d, f)
         IN  IF r.err = NoErr THEN pack(n.handler, r, d, f) ELSE Result(NilExecutor, r.err, r.st)
    ELSE unionExecutor(n.handler, ctx, st, d)

\* Router.Match, dispatched on the concrete type of the node
Router_Match(n, ctx, st, path, d, f) ==
    CASE n.type = "regexpNode" -> regexpNode_Match(n, ctx, st, path, d, f)
      [] n.type = "fullMatchRegexpNode" -> fullMatchRegexpNode_Match(n, ctx, st, path, d, f)
      [] OTHER -> stringNode_Match(n, ctx, st, path, d, f)

\* the children are tried in order; the first one that matches answers
children_MatchFrom(children, k, ctx, st, path, d, f) ==
    IF k > Len(children)
    THEN Result(NilExecutor, routerNotFound, st)
    ELSE LET r == Router_Match(children[k], ctx, st, path, d, f)
         IN  IF r.err = NoErr THEN r
             ELSE children_MatchFrom(children, k + 1, ctx, r.st, path, d, f)

-----------------------------------------------------------------------------
(* Merge *)

\* (n *regexpNode) Kind(), (n *fullMatchRegexpNode) Kind(): both report Regexp
Kind(n) == IF n.type \in {"regexpNode", "fullMatchRegexpNode"} THEN "Regexp" ELSE "String"

\* reflect.TypeOf(r).String()
TypeOf(n) ==
    CASE n.type = "regexpNode" -> "*router.regexpNode"
      [] n.type = "fullMatchRegexpNode" -> "*router.fullMatchRegexpNode"
      [] OTHER -> "*router.stringNode"

FullMatchTarget == ".*"

\* Target(): the matching rule of the node
Target(n) ==
    CASE n.type = "regexpNode" -> <<n.exp>>
      [] n.type = "fullMatchRegexpNode" -> <<FullMatchTarget, n.key>>
      [] OTHER -> n.prefix

unknownRouterType(kind, type) == [type |-> "unknownRouterType", args |-> <<kind, type>>]
unmatchedRouterRegexp(a, b) == [type |-> "unmatchedRouterRegexp", args |-> <<a, b>>]
unmatchedRouterKey(a, b) == [type |-> "unmatchedRouterKey", args |-> <<a, b>>]
unmatchedRouterPrefix == [type |-> "unmatchedRouterPrefix", args |-> <<>>]

\* outcome of Merge: what it returns (ret is "n", the receiver, or "nil"), the
\* receiver n as the call leaves it, and the collaborator calls it made, in order
Merged(ret, err, n, calls) == [ret |-> ret, err |-> err, n |-> n, calls |-> calls]

HandlerOnly == <<"handler.Merge">>
HandlerThenChildren == <<"handler.Merge", "children.merge">>

\* handler.Merge(o): fuse the two handler sets; registering a handler twice
\* is refused
handler_Merge(h, o) ==
    IF \E i \in 1..Len(h.executors), j \in 1..Len(o.executors) :
            h.executors[i].id = o.executors[j].id
    THEN [h |-> h, err |-> conflictHandler]
    ELSE [h |-> [executors |-> h.executors \o o.executors,
                 middlewares |-> h.middlewares \o o.middlewares],
          err |-> NoErr]

RECURSIVE children_mergeFrom(_, _, _)

\* children.merge(o): fuse the children of o into the receiver's, one by one
children_merge(children, o) == children_mergeFrom(children, o, 1)

\* regexpNode.Merge comparing the patterns before the concrete type
regexpNode_Merge_PatternFirst(n, r) ==
    IF n.exp # r.exp
    THEN Merged("nil", unmatchedRouterRegexp(n.exp, r.exp), n, <<>>)
    ELSE IF r.type # "regexpNode"
    THEN Merged("nil", unknownRouterType(Kind(r), TypeOf(r)), n, <<>>)
    ELSE LET hm == handler_Merge(n.handler, r.handler)
             n1 == [n EXCEPT !.handler = hm.h]
             cm == children_merge(n1.children, r.children)
             n2 == [n1 EXCEPT !.children = cm.children]
         IN  IF hm.err # NoErr THEN Merged("nil", hm.err, n1, HandlerOnly)
             ELSE IF cm.err # NoErr THEN Merged("nil", cm.err, n2, HandlerThenChildren)
             ELSE Merged("n", NoErr, n2, HandlerThenChildren)

\* regexpNode.Merge that forgets to merge the children
regexpNode_Merge_NoChildren(n, r) ==
    IF r.type # "regexpNode"
    THEN Merged("nil", unknownRouterType(Kind(r), TypeOf(r)), n, <<>>)
    ELSE IF n.exp # r.exp
    THEN Merged("nil", unmatchedRouterRegexp(n.exp, r.exp), n, <<>>)
    ELSE LET hm == handler_Merge(n.handler, r.handler)
             n1 == [n EXCEPT !.handler = hm.h]
         IN  IF hm.err # NoErr THEN Merged("nil", hm.err, n1, HandlerOnly)
             ELSE Merged("n", NoErr, n1, HandlerOnly)

\* regexpNode.Merge that restores the receiver when the children merge fails
regexpNode_Merge_Rollback(n, r) ==
    IF r.type # "regexpNode"
    THEN Merged("nil", unknownRouterType(Kind(r), TypeOf(r)), n, <<>>)
    ELSE IF n.exp # r.exp
    THEN Merged("nil", unmatchedRouterRegexp(n.exp, r.exp), n, <<>>)
    ELSE LET hm == handler_Merge(n.handler, r.handler)
             n1 == [n EXCEPT !.handler = hm.h]
             cm == children_merge(n1.children, r.children)
             n2 == [n1 EXCEPT !.children = cm.children]
         IN  IF hm.err # NoErr THEN Merged("nil", hm.err, n1, HandlerOnly)
             ELSE IF cm.err # NoErr THEN Merged("nil", cm.err, n, HandlerThenChildren)
             ELSE Merged("n", NoErr, n2, HandlerThenChildren)

\* regexpNode.Merge merging the children before the handlers
regexpNode_Merge_ChildrenFirst(n, r) ==
    IF r.type # "regexpNode"
    THEN Merged("nil", unknownRouterType(Kind(r), TypeOf(r)), n, <<>>)
    ELSE IF n.exp # r.exp
    THEN Merged("nil", unmatchedRouterRegexp(n.exp, r.exp), n, <<>>)
    ELSE LET cm == children_merge(n.children, r.children)
             n1 == [n EXCEPT !.children = cm.children]
             hm == handler_Merge(n1.handler, r.handler)
             n2 == [n1 EXCEPT !.handler = hm.h]
         IN  IF cm.err # NoErr THEN Merged("nil", cm.err, n1, <<"children.merge">>)
             ELSE IF hm.err # NoErr THEN Merged("nil", hm.err, n2, <<"children.merge", "handler.Merge">>)
             ELSE Merged("n", NoErr, n2, <<"children.merge", "handler.Merge">>)

\* regexpNode.Merge reporting the receiver in the type error
regexpNode_Merge_ReportsSelf(n, r) ==
    IF r.type # "regexpNode"
    THEN Merged("nil", unknownRouterType(Kind(n), TypeOf(n)), n, <<>>)
    ELSE IF n.exp # r.exp
    THEN Merged("nil", unmatchedRouterRegexp(n.exp, r.exp), n, <<>>)
    ELSE LET hm == handler_Merge(n.handler, r.handler)
             n1 == [n EXCEPT !.handler = hm.h]
             cm == children_merge(n1.children, r.children)
             n2 == [n1 EXCEPT !.children = cm.children]
         IN  IF hm.err # NoErr THEN Merged("nil", hm.err, n1, HandlerOnly)
             ELSE IF cm.err # NoErr THEN Merged("nil", cm.err, n2, HandlerThenChildren)
             ELSE Merged("n", NoErr, n2, HandlerThenChildren)

\* regexpNode.Merge merging the handlers before it compares the patterns
regexpNode_Merge_HandlerBeforePattern(n, r) ==
    IF r.type # "regexpNode"
    THEN Merged("nil", unknownRouterType(Kind(r), TypeOf(r)), n, <<>>)
    ELSE LET hm == handler_Merge(n.handler, r.handler)
             n1 == [n EXCEPT !.handler = hm.h]
             cm == children_merge(n1.children, r.children)
             n2 == [n1 EXCEPT !.children = cm.children]
         IN  IF hm.err # NoErr THEN Merged("nil", hm.err, n1, HandlerOnly)
             ELSE IF n.exp # r.exp
             THEN Merged("nil", unmatchedRouterRegexp(n.exp, r.exp), n1, HandlerOnly)
             ELSE IF cm.err # NoErr THEN Merged("nil", cm.err, n2, HandlerThenChildren)
             ELSE Merged("n", NoErr, n2, HandlerThenChildren)

\* (n *regexpNode) Merge(r)
regexpNode_Merge(n, r) ==
    IF r.type # "regexpNode"
    THEN Merged("nil", unknownRouterType(Kind(r), TypeOf(r)), n, <<>>)
    ELSE IF n.exp # r.exp
    THEN Merged("nil", unmatchedRouterRegexp(n.exp, r.exp), n, <<>>)
    ELSE LET hm == handler_Merge(n.handler, r.handler)
             n1 == [n EXCEPT !.handler = hm.h]
             cm == children_merge(n1.children, r.children)
             n2 == [n1 EXCEPT !.children = cm.children]
         IN  IF hm.err # NoErr THEN Merged("nil", hm.err, n1, HandlerOnly)
             ELSE IF cm.err # NoErr THEN Merged("nil", cm.err, n2, HandlerThenChildren)
             ELSE Merged("n", NoErr, n2, HandlerThenChildren)

\* (n *fullMatchRegexpNode) Merge(r)
fullMatchRegexpNode_Merge(n, r) ==
    IF r.type # "fullMatchRegexpNode"
    THEN Merged("nil", unknownRouterType(Kind(r), TypeOf(r)), n, <<>>)
    ELSE IF n.key # r.key
    THEN Merged("nil", unmatchedRouterKey(n.key, r.key), n, <<>>)
    ELSE LET hm == handler_Merge(n.handler, r.handler)
             n1 == [n EXCEPT !.handler = hm.h]
             cm == children_merge(n1.children, r.children)
             n2 == [n1 EXCEPT !.children = cm.children]
         IN  IF hm.err # NoErr THEN Merged("nil", hm.err, n1, HandlerOnly)
             ELSE IF cm.err # NoErr THEN Merged("nil", cm.err, n2, HandlerThenChildren)
             ELSE Merged("n", NoErr, n2, HandlerThenChildren)

\* Merge of the literal sibling kind, by the same algorithm
stringNode_Merge(n, r) ==
    IF r.type # "stringNode"
    THEN Merged("nil", unknownRouterType(Kind(r), TypeOf(r)), n, <<>>)
    ELSE IF n.prefix # r.prefix
    THEN Merged("nil", unmatchedRouterPrefix, n, <<>>)
    ELSE LET hm == handler_Merge(n.handler, r.handler)
             n1 == [n EXCEPT !.handler = hm.h]
             cm == children_merge(n1.children, r.children)
             n2 == [n1 EXCEPT !.children = cm.children]
         IN  IF hm.err # NoErr THEN Merged("nil", hm.err, n1, HandlerOnly)
             ELSE IF cm.err # NoErr THEN Merged("nil", cm.err, n2, HandlerThenChildren)
             ELSE Merged("n", NoErr, n2, HandlerThenChildren)

\* Router.Merge, dispatched on the concrete type of the receiver
Router_Merge(n, r) ==
    CASE n.type = "regexpNode" -> regexpNode_Merge(n, r)
      [] n.type = "fullMatchRegexpNode" -> fullMatchRegexpNode_Merge(n, r)
      [] OTHER -> stringNode_Merge(n, r)

\* a child of o with the kind and target of one of the receiver's children is
\* merged into it, any other child of o is added after the receiver's
children_mergeFrom(children, o, k) ==
    IF k > Len(o)
    THEN [children |-> children, err |-> NoErr]
    ELSE LET same == {j \in 1..Len(children) :
                        Kind(children[j]) = Kind(o[k]) /\ Target(children[j]) = Target(o[k])}
         IN  IF same = {}
             THEN children_mergeFrom(Append(children, o[k]), o, k + 1)
             ELSE LET j == CHOOSE j \in same : \A i \in same : j <= i
                      m == Router_Merge(children[j], o[k])
                      merged == [children EXCEPT ![j] = m.n]
                  IN  IF m.err # NoErr
                      THEN [children |-> merged, err |-> m.err]
                      ELSE children_mergeFrom(merged, o, k + 1)

-----------------------------------------------------------------------------
(* The nodes the build phase produces *)

\* index{Key, Pos}
Index(key, pos) == [Key |-> key, Pos |-> pos]

RegexpNode(exp, indices, h, ch) ==
    [type |-> "regexpNode", exp |-> exp, regexp |-> exp, indices |-> indices,
     key |-> "", prefix |-> <<>>, handler |-> h, children |-> ch]

FullMatchRegexpNode(key, h, ch) ==
    [type |-> "fullMatchRegexpNode", exp |-> "", regexp |-> "", indices |-> <<>>,
     key |-> key, prefix |-> <<>>, handler |-> h, children |-> ch]

StringNode(prefix, h, ch) ==
    [type |-> "stringNode", exp |-> "", regexp |-> "", indices |-> <<>>,
     key |-> "", prefix |-> prefix, handler |-> h, children |-> ch]

NoNode == [StringNode(<<>>, [executors |-> <<>>, middlewares |-> <<>>], <<>>) EXCEPT !.type = "none"]

H0 == [executors |-> <<>>, middlewares |-> <<>>]
HA == [executors |-> <<[id |-> "exA", accepts |-> {"c1"}]>>, middlewares |-> <<"mwA">>]
HB == [executors |-> <<[id |-> "exB", accepts |-> {"c1", "c2"}]>>, middlewares |-> <<>>]
Handlers == {H0, HA, HB}

Leaf1 == RegexpNode(ExpDigitsAnchored, <<Index("id", 1)>>, HA, <<>>)
Leaf2 == FullMatchRegexpNode("id", HB, <<>>)
Leaf3 == FullMatchRegexpNode("name", HA, <<>>)

K0 == <<>>
K1 == <<StringNode(<<"/">>, H0, <<Leaf1>>)>>
K2 == <<StringNode(<<"/">>, HA, <<Leaf2>>)>>
K3 == <<StringNode(<<"/", "a">>, HB, <<>>),
        StringNode(<<"/", "o", "r", "d", "e", "r", "s">>, HA, <<>>)>>
K4 == <<StringNode(<<"/">>, HB, <<Leaf3, Leaf1>>), StringNode(<<"/", "a">>, HA, <<>>)>>
ChildrenSets == {K0, K1, K2, K3, K4}

\* the capture indices a node is built with: keys unique, positions valid
IndicesOf(exp) ==
    CASE exp = ExpDigits -> {<<Index("id", 1)>>}
      [] exp = ExpDigitsAnchored -> {<<Index("id", 1)>>, <<Index("name", 0)>>}
      [] OTHER -> {<<Index("name", 1), Index("id", 2)>>}

RegexpNodes ==
    {RegexpNode(exp, ix, h, ch) : exp \in Exps, ix \in UNION {IndicesOf(x) : x \in Exps},
                                  h \in Handlers, ch \in ChildrenSets}

TopNodes ==
    {n \in RegexpNodes : n.indices \in IndicesOf(n.exp)}
    \cup {FullMatchRegexpNode(key, h, ch) : key \in Keys, h \in Handlers, ch \in ChildrenSets}

\* the nodes handed to Merge
MergeNodes ==
    {n \in TopNodes : /\ n.children \in {K0, K2, K4}
                      /\ n.type = "regexpNode" => n.exp \in {ExpDigits, ExpDigitsAnchored} /\ n.indices = <<Index("id", 1)>>
                      /\ n.type = "fullMatchRegexpNode" => n.handler # H0 /\ n.children # K4}
MergeOthers == MergeNodes \cup {StringNode(<<"/">>, HA, <<>>)}

Faults == {NoFault, 0}
Containers == {EmptyContainer, [EmptyContainer EXCEPT !["id"] = <<"o", "l", "d">>]}

-----------------------------------------------------------------------------
(* The Pacer as NewPacer returns it *)

\* pause: make(chan struct{}, 1)
PauseCap == 1
\* paused: make(chan struct{}, 1)
PausedCap == 1

Tasks == 1..NumTasks

\* NewPacer: the channels are empty and open, run waits on the gate
NewPacer ==
    /\ gateClosed = FALSE
    /\ pauseLen = 0
    /\ pausedLen = 0
    /\ runPc = "gate"
    /\ taskPc = [t \in Tasks |-> "idle"]
    /\ ctl = "idle"
    /\ sinceRelease = "none"
    /\ gap = "none"

-----------------------------------------------------------------------------
(* Sequential behaviour: one caller at a time *)

NoMatch ==
    [n |-> NoNode, ctx |-> "", path |-> <<>>, f |-> NoFault, c0 |-> EmptyContainer,
     ret |-> Result(NilExecutor, NoErr, [c |-> EmptyContainer, log |-> <<>>])]
NoMerge == [n0 |-> NoNode, r |-> NoNode, ret |-> "nil", err |-> NoErr, calls |-> <<>>]

Threads == 1..NumCallers
IdleCall == [ctx |-> "", path |-> <<>>, f |-> NoFault, c0 |-> EmptyContainer]
IdleLoc == [index |-> 0, result |-> <<>>, e |-> NilExecutor, err |-> NoErr, i |-> 0]
IdleSink == [c |-> EmptyContainer, log |-> <<>>]

ConcIdle ==
    /\ pc = [t \in Threads |-> "idle"]
    /\ call = [t \in Threads |-> IdleCall]
    /\ loc = [t \in Threads |-> IdleLoc]
    /\ sinks = [t \in Threads |-> IdleSink]

Init ==
    /\ self \in TopNodes
    /\ built = self
    /\ other = NoNode
    /\ phase = "built"
    /\ lastMatch = NoMatch
    /\ lastMerge = NoMerge
    /\ ConcIdle
    /\ NewPacer

\* a caller runs n.Match(ctx, c, path) on the receiver, with its own Container
MatchCall(ctx, path, f, c0) ==
    /\ lastMatch' = [n |-> self, ctx |-> ctx, path |-> path, f |-> f, c0 |-> c0,
                     ret |-> Router_Match(self, ctx, [c |-> c0, log |-> <<>>], path, 0, f)]
    /\ UNCHANGED <<pvars, self, built, other, lastMerge, pc, call, loc, sinks>>

Match ==
    /\ phase = "built"
    /\ phase' = "matched"
    /\ \E ctx \in Contexts, path \in Paths, f \in Faults, c0 \in Containers :
            MatchCall(ctx, path, f, c0)

Next == Match

Spec == Init /\ [][Next]_vars

-----------------------------------------------------------------------------
(* Build phase: two nodes are merged, then the merged node serves *)

InitMerge ==
    /\ self \in MergeNodes
    /\ built = self
    /\ other \in MergeOthers
    /\ phase = "built"
    /\ lastMatch = NoMatch
    /\ lastMerge = NoMerge
    /\ ConcIdle
    /\ NewPacer

\* n.Merge(r): the receiver is updated in place
Merge ==
    /\ phase = "built"
    /\ \E m \in {Router_Merge(self, other)} :
           /\ self' = m.n
           /\ lastMerge' = [n0 |-> self, r |-> other, ret |-> m.ret, err |-> m.err, calls |-> m.calls]
    /\ phase' = "merged"
    /\ UNCHANGED <<pvars, built, other, lastMatch, pc, call, loc, sinks>>

MatchMerged ==
    /\ phase = "merged"
    /\ lastMerge.err = NoErr
    /\ phase' = "rematched"
    /\ \E ctx \in Contexts, path \in Paths, f \in Faults :
            MatchCall(ctx, path, f, EmptyContainer)

NextMerge == Merge \/ MatchMerged

SpecMerge == InitMerge /\ [][NextMerge]_vars

-----------------------------------------------------------------------------
(* Serving phase: concurrent callers of Match on the same node, each with   *)
(* its own Container; every statement of Match is one step of its caller.   *)

ConcNodes ==
    { RegexpNode(ExpLettersDigits, <<Index("name", 1), Index("id", 2)>>, HA, K2),
      RegexpNode(ExpDigitsAnchored, <<Index("id", 1)>>, HB, K1),
      FullMatchRegexpNode("id", HA, K4) }

ConcPaths == { <<"4", "/", "4">>, <<"a", "/", "a">>, <<"4">>, <<"/", "4">> }

InitConc ==
    /\ self \in ConcNodes
    /\ built = self
    /\ other = NoNode
    /\ phase = "built"
    /\ lastMatch = NoMatch
    /\ lastMerge = NoMerge
    /\ ConcIdle
    /\ NewPacer

\* a caller enters n.Match(ctx, c, path)
Enter(t) ==
    /\ pc[t] = "idle"
    /\ \E ctx \in Contexts, path \in ConcPaths :
            call' = [call EXCEPT ![t] = [ctx |-> ctx, path |-> path, f |-> NoFault, c0 |-> EmptyContainer]]
    /\ pc' = [pc EXCEPT ![t] = "self"]
    /\ UNCHANGED <<pvars, self, built, other, phase, lastMatch, lastMerge, loc, sinks>>

\* "Match self": index, segment and the pattern's submatches
MatchSelf(t) ==
    /\ pc[t] = "self"
    /\ LET idx == IndexByte(call[t].path, "/")
       IN  IF self.type = "regexpNode"
           THEN LET index  == IF idx < 0 THEN Len(call[t].path) ELSE idx
                    result == FindStringSubmatch(self.regexp, Slice(call[t].path, 0, index))
                IN  /\ loc' = [loc EXCEPT ![t].index = index, ![t].result = result,
                                          ![t].err = IF result = <<>> THEN routerNotFound ELSE NoErr]
                    /\ pc' = [pc EXCEPT ![t] = IF result = <<>> THEN "done" ELSE "progeny"]
           ELSE /\ loc' = [loc EXCEPT ![t].index = idx]
                /\ pc' = [pc EXCEPT ![t] = "progeny"]
    /\ UNCHANGED <<pvars, self, built, other, phase, lastMatch, lastMerge, call, sinks>>

\* "Match progeny": children.Match on the rest of the path, or unionExecutor
Progeny(t) ==
    /\ pc[t] = "progeny"
    /\ LET path == call[t].path
           delegate == IF self.type = "regexpNode" THEN loc[t].index < Len(path)
                       ELSE loc[t].index > 0
           r == IF delegate
                THEN children_Match(self.children, call[t].ctx, sinks[t],
                                    Slice(path, loc[t].index, Len(path)), 0, call[t].f)
                ELSE unionExecutor(self.handler, call[t].ctx, sinks[t], 0)
       IN  /\ sinks' = [sinks EXCEPT ![t] = r.st]
           /\ loc' = [loc EXCEPT ![t].e = r.e, ![t].err = r.err,
                                 ![t].index = IF delegate \/ self.type = "regexpNode"
                                              THEN @ ELSE Len(path)]
           /\ pc' = [pc EXCEPT ![t] = IF delegate /\ r.err = NoErr THEN "pack" ELSE "check"]
    /\ UNCHANGED <<pvars, self, built, other, phase, lastMatch, lastMerge, call>>

\* "e, err = n.handler.pack(e)"
Pack(t) ==
    /\ pc[t] = "pack"
    /\ LET r == pack(self.handler, Result(loc[t].e, NoErr, sinks[t]), 0, call[t].f)
       IN  /\ sinks' = [sinks EXCEPT ![t] = r.st]
           /\ loc' = [loc EXCEPT ![t].e = r.e, ![t].err = r.err]
    /\ pc' = [pc EXCEPT ![t] = "check"]
    /\ UNCHANGED <<pvars, self, built, other, phase, lastMatch, lastMerge, call>>

\* "if err != nil { return nil, err }"
Check(t) ==
    /\ pc[t] = "check"
    /\ IF loc[t].err # NoErr
       THEN /\ loc' = [loc EXCEPT ![t].e = NilExecutor]
            /\ pc' = [pc EXCEPT ![t] = "done"]
       ELSE /\ loc' = [loc EXCEPT ![t].i = 1]
            /\ pc' = [pc EXCEPT ![t] = "set"]
    /\ UNCHANGED <<pvars, self, built, other, phase, lastMatch, lastMerge, call, sinks>>

\* "Set values": the caller writes one capture into the Container at slot t,
\* or leaves the loop and returns e
SetInto(t, slot) ==
    /\ pc[t] = "set"
    /\ IF self.type = "regexpNode"
       THEN IF loc[t].i <= Len(self.indices)
            THEN LET i == self.indices[loc[t].i]
                     v == loc[t].result[i.Pos + 1]
                 IN  /\ sinks' = [sinks EXCEPT ![slot] =
                                    [c |-> Set(@.c, i.Key, v),
                                     log |-> Append(@.log, LogEntry("Set", 0, i.Key, v))]]
                     /\ loc' = [loc EXCEPT ![t].i = @ + 1]
                     /\ pc' = pc
            ELSE /\ pc' = [pc EXCEPT ![t] = "done"]
                 /\ UNCHANGED <<loc, sinks>>
       ELSE LET v == Slice(call[t].path, 0, loc[t].index)
            IN  /\ sinks' = [sinks EXCEPT ![slot] =
                                [c |-> Set(@.c, self.key, v),
                                 log |-> Append(@.log, LogEntry("Set", 0, self.key, v))]]
                /\ pc' = [pc EXCEPT ![t] = "done"]
                /\ loc' = loc
    /\ UNCHANGED <<pvars, self, built, other, phase, lastMatch, lastMerge, call>>

\* every caller owns its Container: the one handed to a shared Container
SetValue_Shared(t) == SetInto(t, 1)

\* c.Set(...) on the caller's own Container
SetValue(t) == SetInto(t, t)

NextConc ==
    \E t \in Threads :
        \/ Enter(t)
        \/ MatchSelf(t)
        \/ Progeny(t)
        \/ Pack(t)
        \/ Check(t)
        \/ SetValue(t)

SpecConc == InitConc /\ [][NextConc]_vars

-----------------------------------------------------------------------------
(* The Pacer: goroutines that call Next (directly or through the function   *)
(* Pace returns), the run goroutine NewPacer starts, and one goroutine that *)
(* calls Pause, Resume and Stop.  Every channel operation is one step; a    *)
(* send on the unbuffered gate completes in the step in which run receives  *)
(* it; the sender's return from Next is a later step of its own goroutine.  *)

InitPacer ==
    /\ self = NoNode
    /\ built = NoNode
    /\ other = NoNode
    /\ phase = "pacer"
    /\ lastMatch = NoMatch
    /\ lastMerge = NoMerge
    /\ ConcIdle
    /\ NewPacer

\* IsPaused: len(p.paused) != 0
IsPaused == pausedLen # 0

\* a goroutine calls p.Next() and reaches the send on the gate
CallNext(t) ==
    /\ taskPc[t] = "idle"
    /\ taskPc' = [taskPc EXCEPT ![t] = "next"]
    /\ UNCHANGED <<rvars, gateClosed, pauseLen, pausedLen, runPc, ctl, sinceRelease, gap>>

\* run's receive in "for _ = range p.gate" takes the value goroutine t is
\* sending in Next: the send is complete and the goroutine can run again, run
\* enters the loop body
Release(t) ==
    /\ taskPc[t] = "next"
    /\ runPc = "gate"
    /\ ~gateClosed
    /\ taskPc' = [taskPc EXCEPT ![t] = "released"]
    /\ runPc' = "sleep"
    /\ UNCHANGED <<rvars, gateClosed, pauseLen, pausedLen, ctl, sinceRelease, gap>>

\* the released goroutine is scheduled again: Next returns and the paced
\* task starts
NextReturns(t) ==
    /\ taskPc[t] = "released"
    /\ taskPc' = [taskPc EXCEPT ![t] = "running"]
    /\ gap' = sinceRelease
    /\ sinceRelease' = "released"
    /\ UNCHANGED <<rvars, gateClosed, pauseLen, pausedLen, runPc, ctl>>

\* p.gate <- struct{}{} on the closed gate: the send panics, whether the
\* goroutine was already blocked in it or reaches it after the close
SendOnClosed(t) ==
    /\ taskPc[t] = "next"
    /\ gateClosed
    /\ taskPc' = [taskPc EXCEPT ![t] = "panicked"]
    /\ UNCHANGED <<rvars, gateClosed, pauseLen, pausedLen, runPc, ctl, sinceRelease, gap>>

\* the paced task completes; the goroutine may call Next again
TaskDone(t) ==
    /\ taskPc[t] = "running"
    /\ taskPc' = [taskPc EXCEPT ![t] = "idle"]
    /\ UNCHANGED <<rvars, gateClosed, pauseLen, pausedLen, runPc, ctl, sinceRelease, gap>>

\* run: time.Sleep(p.delay) returns
RunSleep ==
    /\ runPc = "sleep"
    /\ runPc' = "sendPause"
    /\ sinceRelease' = "slept"
    /\ UNCHANGED <<rvars, gateClosed, pauseLen, pausedLen, taskPc, ctl, gap>>

\* run: p.pause <- struct{}{}
RunSendPause ==
    /\ runPc = "sendPause"
    /\ pauseLen < PauseCap
    /\ pauseLen' = pauseLen + 1
    /\ runPc' = "recvPause"
    /\ UNCHANGED <<rvars, gateClosed, pausedLen, taskPc, ctl, sinceRelease, gap>>

\* run: <-p.pause, then back to the range over the gate
RunRecvPause ==
    /\ runPc = "recvPause"
    /\ pauseLen > 0
    /\ pauseLen' = pauseLen - 1
    /\ runPc' = "gate"
    /\ UNCHANGED <<rvars, gateClosed, pausedLen, taskPc, ctl, sinceRelease, gap>>

\* run: the range over the closed gate ends, the goroutine returns
RunExit ==
    /\ runPc = "gate"
    /\ gateClosed
    /\ runPc' = "exit"
    /\ UNCHANGED <<rvars, gateClosed, pauseLen, pausedLen, taskPc, ctl, sinceRelease, gap>>

\* Pause: p.pause <- struct{}{}
PauseSendPause ==
    /\ ctl = "idle"
    /\ pauseLen < PauseCap
    /\ pauseLen' = pauseLen + 1
    /\ ctl' = "pausing"
    /\ UNCHANGED <<rvars, gateClosed, pausedLen, runPc, taskPc, sinceRelease, gap>>

\* Pause: p.paused <- struct{}{}, then Pause returns
PauseSendPaused ==
    /\ ctl = "pausing"
    /\ pausedLen < PausedCap
    /\ pausedLen' = pausedLen + 1
    /\ ctl' = "paused"
    /\ UNCHANGED <<rvars, gateClosed, pauseLen, runPc, taskPc, sinceRelease, gap>>

\* Resume: <-p.paused
ResumeRecvPaused ==
    /\ ctl = "paused"
    /\ pausedLen > 0
    /\ pausedLen' = pausedLen - 1
    /\ ctl' = "resuming"
    /\ UNCHANGED <<rvars, gateClosed, pauseLen, runPc, taskPc, sinceRelease, gap>>

\* Resume returns and leaves the value Pause sent in p.pause
ResumeRecvPause_Leaves ==
    /\ ctl = "resuming"
    /\ pauseLen > 0
    /\ ctl' = "resumed"
    /\ UNCHANGED <<rvars, gateClosed, pauseLen, pausedLen, runPc, taskPc, sinceRelease, gap>>

\* Resume: <-p.pause, then Resume returns
ResumeRecvPause ==
    /\ ctl = "resuming"
    /\ pauseLen > 0
    /\ pauseLen' = pauseLen - 1
    /\ ctl' = "resumed"
    /\ UNCHANGED <<rvars, gateClosed, pausedLen, runPc, taskPc, sinceRelease, gap>>

\* Stop: close(p.gate), called once and not from inside Pause or Resume
Stop ==
    /\ ctl \in {"idle", "paused", "resumed"}
    /\ ~gateClosed
    /\ gateClosed' = TRUE
    /\ UNCHANGED <<rvars, pauseLen, pausedLen, runPc, taskPc, ctl, sinceRelease, gap>>

NextPacer ==
    \/ \E t \in Tasks :
        \/ CallNext(t)
        \/ Release(t)
        \/ NextReturns(t)
        \/ SendOnClosed(t)
        \/ TaskDone(t)
    \/ RunSleep
    \/ RunSendPause
    \/ RunRecvPause
    \/ RunExit
    \/ PauseSendPause
    \/ PauseSendPaused
    \/ ResumeRecvPaused
    \/ ResumeRecvPause
    \/ Stop

SpecPacer == InitPacer /\ [][NextPacer]_vars

\* The Go scheduler runs every goroutine that can take its next step, and a
\* channel serves its blocked senders in the order they arrived: a step of run
\* or of Pause/Resume that stays possible is taken, and a goroutine blocked in
\* Next that run keeps coming back to is served.  Calling Next, Pause, Resume
\* or Stop, and finishing a task, are the callers' choice.
SpecPacerFair ==
    /\ SpecPacer
    /\ WF_vars(RunSleep)
    /\ WF_vars(RunSendPause)
    /\ WF_vars(RunRecvPause)
    /\ WF_vars(RunExit)
    /\ WF_vars(PauseSendPaused)
    /\ WF_vars(ResumeRecvPause)
    /\ \A t \in Tasks :
        SF_vars(Release(t)) /\ WF_vars(NextReturns(t)) /\ WF_vars(SendOnClosed(t))

-----------------------------------------------------------------------------
(* Vocabulary of the properties *)

\* the prefix of path before the first '/', or the whole path
LeadingSegment(path) ==
    IF \E i \in 1..Len(path) : path[i] = "/"
    THEN SubSeq(path, 1, (CHOOSE i \in 1..Len(path) : path[i] = "/" /\ \A j \in 1..(i - 1) : path[j] # "/") - 1)
    ELSE path

HasSeparator(path) == \E i \in 1..Len(path) : path[i] = "/"
BeginsWithSeparator(path) == Len(path) > 0 /\ path[1] = "/"

IsPattern(n) == n.type = "regexpNode"
IsCatchAll(n) == n.type = "fullMatchRegexpNode"

\* the node's own pattern accepts the leading segment
SegmentMatches(n, path) ==
    IsCatchAll(n) \/ (IsPattern(n) /\ FindStringSubmatch(n.regexp, LeadingSegment(path)) # <<>>)

\* the node hands the rest of the path to its children
Delegates(n, path) ==
    IF IsPattern(n) THEN HasSeparator(path)
    ELSE HasSeparator(path) /\ ~BeginsWithSeparator(path)

\* the rest of the path, from its first separator on
Remainder(path) == SubSeq(path, Len(LeadingSegment(path)) + 1, Len(path))

\* the error of the step after the node's own match, nil when it succeeds
DownstreamErr(m) ==
    LET st0 == [c |-> m.c0, log |-> <<>>]
    IN  IF Delegates(m.n, m.path)
        THEN LET r == children_Match(m.n.children, m.ctx, st0, Remainder(m.path), 0, m.f)
             IN  IF r.err # NoErr THEN r.err ELSE pack(m.n.handler, r, 0, m.f).err
        ELSE unionExecutor(m.n.handler, m.ctx, st0, 0).err

\* what the receiver of the call did: its Set calls, its collaborator calls
OwnSets(m) == SelectSeq(m.ret.st.log, LAMBDA x : x.d = 0 /\ x.op = "Set")
OwnCalls(m, op) == SelectSeq(m.ret.st.log, LAMBDA x : x.d = 0 /\ x.op = op)

Returned == phase = "matched"

-----------------------------------------------------------------------------
(* Properties of Match *)

\* C1: when the node's own segment matches and the downstream step (children.Match,
\* handler.pack or unionExecutor) fails, Match returns that error, no executor,
\* and the node itself has made no Set call on the Container.
C1_CommitOnSuccess ==
    (Returned /\ SegmentMatches(lastMatch.n, lastMatch.path)
              /\ DownstreamErr(lastMatch) # NoErr)
    => /\ lastMatch.ret.err = DownstreamErr(lastMatch)
       /\ lastMatch.ret.e = NilExecutor
       /\ OwnSets(lastMatch) = <<>>

\* a pattern node with a capture matched its segment, its children matched and
\* wrote their capture, and then handler.pack failed
C1_Witness ==
    /\ Returned
    /\ IsPattern(lastMatch.n) /\ lastMatch.n.indices # <<>>
    /\ SegmentMatches(lastMatch.n, lastMatch.path)
    /\ lastMatch.ret.err = packFailed
    /\ lastMatch.ret.st.c # lastMatch.c0
    /\ OwnSets(lastMatch) = <<>>

\* C2: when the leading segment is not matched by the pattern, regexpNode.Match
\* fails with routerNotFound, the Container is as the caller passed it, and no
\* collaborator (children, handler) has been called.
C2_NotFoundUntouched ==
    (Returned /\ IsPattern(lastMatch.n) /\ ~SegmentMatches(lastMatch.n, lastMatch.path))
    => /\ lastMatch.ret.err = routerNotFound
       /\ lastMatch.ret.e = NilExecutor
       /\ lastMatch.ret.st.c = lastMatch.c0
       /\ lastMatch.ret.st.log = <<>>

\* the segment is refused although the downstream step alone would succeed
C2_Witness ==
    /\ Returned
    /\ IsPattern(lastMatch.n) /\ ~SegmentMatches(lastMatch.n, lastMatch.path)
    /\ HasSeparator(lastMatch.path)
    /\ DownstreamErr(lastMatch) = NoErr
    /\ lastMatch.ret.err = routerNotFound

\* every declared key holds the submatch at its position (the whole segment
\* for a catch-all node)
CapturesCommitted(m) ==
    IF IsPattern(m.n)
    THEN \A k \in 1..Len(m.n.indices) :
            m.ret.st.c[m.n.indices[k].Key] =
                FindStringSubmatch(m.n.exp, LeadingSegment(m.path))[m.n.indices[k].Pos + 1]
    ELSE m.ret.st.c[m.n.key] = LeadingSegment(m.path)

\* the case C3 is about: the pattern accepts the leading segment, or the node is
\* a catch-all and the leading segment is not empty
C3_Case(m) ==
    \/ IsPattern(m.n) /\ SegmentMatches(m.n, m.path)
    \/ IsCatchAll(m.n) /\ LeadingSegment(m.path) # <<>>

\* C3 as stated: whenever the leading segment satisfies the pattern (catch-all:
\* is not empty), Match succeeds and the captures are in the Container.
C3_Original ==
    (Returned /\ C3_Case(lastMatch))
    => (lastMatch.ret.err = NoErr /\ CapturesCommitted(lastMatch))

\* C3 amended: whenever the leading segment satisfies the pattern (catch-all: is
\* not empty) and the downstream step succeeds, Match succeeds, returns an
\* executor, and every declared key holds exactly its submatch of the segment.
C3_CapturesOnSuccess ==
    (Returned /\ C3_Case(lastMatch) /\ DownstreamErr(lastMatch) = NoErr)
    => /\ lastMatch.ret.err = NoErr
       /\ lastMatch.ret.e # NilExecutor
       /\ CapturesCommitted(lastMatch)

\* a pattern node with two captures succeeded on a delegated path and overwrote
\* a value its descendant had written under the same key
C3_Witness ==
    /\ Returned
    /\ IsPattern(lastMatch.n) /\ Len(lastMatch.n.indices) = 2
    /\ Delegates(lastMatch.n, lastMatch.path)
    /\ lastMatch.ret.err = NoErr
    /\ Len(OwnSets(lastMatch)) = 2
    /\ \E k \in 1..Len(lastMatch.ret.st.log) :
            /\ lastMatch.ret.st.log[k].op = "Set" /\ lastMatch.ret.st.log[k].d > 0
            /\ lastMatch.ret.st.log[k].key = "id"
            /\ lastMatch.ret.st.log[k].val # lastMatch.ret.st.c["id"]

\* C4 as stated: given a path that begins with '/', fullMatchRegexpNode.Match
\* takes the terminal branch (unionExecutor, never children.Match) and, when it
\* succeeds, the value written under the node's key is the empty string.
C4_EmptySegmentCapturesEmpty ==
    (Returned /\ IsCatchAll(lastMatch.n) /\ BeginsWithSeparator(lastMatch.path))
    => /\ Len(OwnCalls(lastMatch, "unionExecutor")) = 1
       /\ OwnCalls(lastMatch, "children.Match") = <<>>
       /\ lastMatch.ret.err = NoErr
            => /\ Len(OwnSets(lastMatch)) = 1
               /\ OwnSets(lastMatch)[1].key = lastMatch.n.key
               /\ OwnSets(lastMatch)[1].val = <<>>

\* C5 as stated: on every successful fullMatchRegexpNode.Match the one value
\* written under the node's key is the leading segment of the path, verbatim,
\* and it holds no '/'.
C5_CatchAllCapturesSegment ==
    (Returned /\ IsCatchAll(lastMatch.n) /\ lastMatch.ret.err = NoErr)
    => /\ Len(OwnSets(lastMatch)) = 1
       /\ OwnSets(lastMatch)[1].key = lastMatch.n.key
       /\ OwnSets(lastMatch)[1].val = LeadingSegment(lastMatch.path)
       /\ ~HasSeparator(OwnSets(lastMatch)[1].val)
       /\ lastMatch.ret.st.c[lastMatch.n.key] = LeadingSegment(lastMatch.path)

\* the pattern node of the scenario: one or more digits, index{id, 1}
IsDigitsNode(n) ==
    IsPattern(n) /\ n.exp \in {ExpDigits, ExpDigitsAnchored} /\ n.indices = <<Index("id", 1)>>

Path42Orders == <<"4", "2", "/", "o", "r", "d", "e", "r", "s">>
SlashOrders == <<"/", "o", "r", "d", "e", "r", "s">>
SlashAbc == <<"/", "a", "b", "c">>

\* the node matched a segment, called children.Match once with rest and, when the
\* whole call succeeded, wrote id -> value (both fail when the call stopped early)
C6_Delegated(m, rest, value) ==
    /\ Len(OwnCalls(m, "children.Match")) = 1
    /\ OwnCalls(m, "children.Match")[1].val = rest
    /\ DownstreamErr(m) = NoErr
         => (m.ret.err = NoErr /\ m.ret.st.c["id"] = value)

C6_NotFound(m) ==
    /\ m.ret.err = routerNotFound
    /\ m.ret.st.c = m.c0
    /\ m.ret.st.log = <<>>

\* C6 as stated: the digits node given /42/orders matches segment 42, calls
\* children.Match with /orders and on success writes id -> 42; given /abc it
\* fails with routerNotFound and leaves the Container unchanged.
C6_Original ==
    (Returned /\ IsDigitsNode(lastMatch.n))
    => /\ lastMatch.path = <<"/">> \o Path42Orders
            => C6_Delegated(lastMatch, SlashOrders, <<"4", "2">>)
       /\ lastMatch.path = SlashAbc => C6_NotFound(lastMatch)

\* C6 amended: the digits node given 42/orders (no leading separator) matches
\* segment 42, calls children.Match once with exactly /orders and, when children
\* and handler.pack succeed, succeeds with id -> 42; given /abc, or /42/orders,
\* it fails with routerNotFound and leaves the Container unchanged.
C6_DigitsScenario ==
    (Returned /\ IsDigitsNode(lastMatch.n))
    => /\ lastMatch.path = Path42Orders
            => C6_Delegated(lastMatch, SlashOrders, <<"4", "2">>)
       /\ lastMatch.path \in {SlashAbc, <<"/">> \o Path42Orders}
            => C6_NotFound(lastMatch)

\* the digits node served 42/orders, its children accepted /orders, id is 42
C6_Witness ==
    /\ Returned /\ IsDigitsNode(lastMatch.n)
    /\ lastMatch.path = Path42Orders
    /\ lastMatch.c0["id"] # <<"4", "2">>
    /\ lastMatch.ret.err = NoErr
    /\ lastMatch.ret.e.base = "exA"
    /\ lastMatch.ret.st.c["id"] = <<"4", "2">>

-----------------------------------------------------------------------------
(* Delegation and the order of the writes *)

\* children.Match on the rest of the path, as the receiver of the last call makes it
ChildrenOf(m) ==
    children_Match(m.n.children, m.ctx, [c |-> m.c0, log |-> <<>>], Remainder(m.path), 0, m.f)

\* C15: when the pattern node's segment matches and the path has a separator at
\* index i, children.Match is called exactly once, with the caller's Container
\* and path[i:]; when it fails with E, Match returns E, the Container is as
\* children.Match left it, and neither handler.pack nor unionExecutor is called;
\* when it succeeds, handler.pack is called once on its result and Match returns
\* what pack returns.  unionExecutor is called only for a path with no separator.
C15_DelegationWithoutBacktracking ==
    (Returned /\ IsPattern(lastMatch.n))
    => /\ (SegmentMatches(lastMatch.n, lastMatch.path) /\ HasSeparator(lastMatch.path))
            => /\ Len(OwnCalls(lastMatch, "children.Match")) = 1
               /\ lastMatch.ret.st.log[1] = LogEntry("children.Match", 0, "", Remainder(lastMatch.path))
               /\ OwnCalls(lastMatch, "unionExecutor") = <<>>
               /\ ChildrenOf(lastMatch).err # NoErr
                    => /\ lastMatch.ret.err = ChildrenOf(lastMatch).err
                       /\ lastMatch.ret.e = NilExecutor
                       /\ lastMatch.ret.st = ChildrenOf(lastMatch).st
                       /\ OwnCalls(lastMatch, "pack") = <<>>
               /\ ChildrenOf(lastMatch).err = NoErr
                    => /\ Len(OwnCalls(lastMatch, "pack")) = 1
                       /\ lastMatch.ret.err = pack(lastMatch.n.handler, ChildrenOf(lastMatch), 0, lastMatch.f).err
                       /\ lastMatch.ret.e = pack(lastMatch.n.handler, ChildrenOf(lastMatch), 0, lastMatch.f).e
       /\ OwnCalls(lastMatch, "unionExecutor") # <<>> => ~HasSeparator(lastMatch.path)

\* the segment matched, the children refused the rest, and the node, which has a
\* handler that accepts the context, did not answer in their place
C15_Witness ==
    /\ Returned /\ IsPattern(lastMatch.n)
    /\ SegmentMatches(lastMatch.n, lastMatch.path) /\ HasSeparator(lastMatch.path)
    /\ lastMatch.n.children # <<>>
    /\ ChildrenOf(lastMatch).err = routerNotFound
    /\ unionExecutor(lastMatch.n.handler, lastMatch.ctx, [c |-> lastMatch.c0, log |-> <<>>], 0).err = NoErr
    /\ lastMatch.ret.err = routerNotFound

\* the Set calls of the last Match call, in the order they were made
AllSets(m) == SelectSeq(m.ret.st.log, LAMBDA x : x.op = "Set")

\* the Container after the Set calls s are applied to c, in order
RECURSIVE Replay(_, _)
Replay(c, s) == IF s = <<>> THEN c ELSE Replay(Set(c, s[1].key, s[1].val), Tail(s))

\* C18: in a chain of nodes the captures are written deepest node first and the
\* receiver of the call last; so a key declared by the receiver and by a
\* descendant ends with the receiver's value, and when the call fails after a
\* descendant succeeded (handler.pack of the receiver failed) the descendant's
\* captures stay in the Container while the receiver has written nothing.
C18_DeepestFirst ==
    Returned
    => /\ \A i, j \in 1..Len(AllSets(lastMatch)) :
            i < j => AllSets(lastMatch)[i].d >= AllSets(lastMatch)[j].d
       /\ lastMatch.ret.st.c = Replay(lastMatch.c0, AllSets(lastMatch))
       /\ lastMatch.ret.err = NoErr
            => \A k \in 1..Len(OwnSets(lastMatch)) :
                    (\A l \in (k + 1)..Len(OwnSets(lastMatch)) : OwnSets(lastMatch)[l].key # OwnSets(lastMatch)[k].key)
                    => lastMatch.ret.st.c[OwnSets(lastMatch)[k].key] = OwnSets(lastMatch)[k].val
       /\ lastMatch.ret.err # NoErr
            => /\ OwnSets(lastMatch) = <<>>
               /\ \A k \in 1..Len(AllSets(lastMatch)) :
                    (\A l \in (k + 1)..Len(AllSets(lastMatch)) : AllSets(lastMatch)[l].key # AllSets(lastMatch)[k].key)
                    => lastMatch.ret.st.c[AllSets(lastMatch)[k].key] = AllSets(lastMatch)[k].val

\* a catch-all node and its catch-all descendant declare the same key: the
\* descendant wrote first, the receiver wrote last and its value is the one kept
C18_Witness ==
    /\ Returned /\ IsCatchAll(lastMatch.n)
    /\ lastMatch.ret.err = NoErr
    /\ Len(AllSets(lastMatch)) = 2
    /\ AllSets(lastMatch)[1].d > 0 /\ AllSets(lastMatch)[2].d = 0
    /\ AllSets(lastMatch)[1].key = AllSets(lastMatch)[2].key
    /\ AllSets(lastMatch)[1].val # AllSets(lastMatch)[2].val
    /\ lastMatch.ret.st.c[lastMatch.n.key] = AllSets(lastMatch)[2].val

\* the descendant of a catch-all node succeeded and wrote, the receiver's
\* handler.pack failed: the call failed and the descendant's value remains
C18_WitnessFailed ==
    /\ Returned /\ IsCatchAll(lastMatch.n)
    /\ lastMatch.ret.err = packFailed
    /\ Len(AllSets(lastMatch)) = 1
    /\ AllSets(lastMatch)[1].d > 0
    /\ lastMatch.ret.st.c[AllSets(lastMatch)[1].key] = AllSets(lastMatch)[1].val
    /\ lastMatch.ret.st.c # lastMatch.c0

-----------------------------------------------------------------------------
(* Properties of Merge *)

MergeReturned == phase \in {"merged", "rematched"}

\* the two nodes pass the structural checks of Merge
Compatible(n, r) ==
    /\ n.type = r.type
    /\ IsPattern(n) => n.exp = r.exp
    /\ IsCatchAll(n) => n.key = r.key

\* C7: Merge of nodes of different concrete types fails with unknownRouterType
\* (also when their patterns or keys differ as well: the type is checked first);
\* two pattern nodes with different sources fail with unmatchedRouterRegexp; two
\* catch-all nodes with different keys fail with unmatchedRouterKey.  No node is
\* returned.
C7_MismatchErrors ==
    (MergeReturned /\ ~Compatible(lastMerge.n0, lastMerge.r))
    => /\ lastMerge.ret = "nil"
       /\ lastMerge.n0.type # lastMerge.r.type
            => lastMerge.err.type = "unknownRouterType"
       /\ (IsPattern(lastMerge.n0) /\ IsPattern(lastMerge.r))
            => lastMerge.err = unmatchedRouterRegexp(lastMerge.n0.exp, lastMerge.r.exp)
       /\ (IsCatchAll(lastMerge.n0) /\ IsCatchAll(lastMerge.r))
            => lastMerge.err = unmatchedRouterKey(lastMerge.n0.key, lastMerge.r.key)

\* a pattern node was merged with a catch-all node: the sources differ too, and
\* the error is the one of the type check
C7_Witness ==
    /\ MergeReturned
    /\ IsPattern(lastMerge.n0) /\ IsCatchAll(lastMerge.r)
    /\ lastMerge.n0.exp # lastMerge.r.exp
    /\ lastMerge.err.type = "unknownRouterType"
    /\ lastMerge.ret = "nil"

\* Match on node n alone, with the inputs of the last call
MatchAlone(n) ==
    Router_Match(n, lastMatch.ctx, [c |-> lastMatch.c0, log |-> <<>>], lastMatch.path, 0, lastMatch.f)

\* C8: Merge of two compatible nodes whose handler and children merges succeed
\* returns the receiver without error, and the merged node's Match succeeds on
\* every (context, path) on which Match of the receiver before the merge, or of
\* the other node, succeeded.
C8_MergedAcceptsBoth ==
    /\ (MergeReturned /\ Compatible(lastMerge.n0, lastMerge.r)
            /\ handler_Merge(lastMerge.n0.handler, lastMerge.r.handler).err = NoErr
            /\ children_merge(lastMerge.n0.children, lastMerge.r.children).err = NoErr)
       => (lastMerge.err = NoErr /\ lastMerge.ret = "n")
    /\ (phase = "rematched"
            /\ (MatchAlone(lastMerge.n0).err = NoErr \/ MatchAlone(lastMerge.r).err = NoErr))
       => lastMatch.ret.err = NoErr

\* the merged node accepted, through its children, a path that only the other
\* node accepted before the merge
C8_Witness ==
    /\ phase = "rematched"
    /\ HasSeparator(lastMatch.path)
    /\ MatchAlone(lastMerge.n0).err # NoErr
    /\ MatchAlone(lastMerge.r).err = NoErr
    /\ lastMatch.ret.err = NoErr

\* C9: when the handler merge succeeds and the children merge fails, Merge
\* returns the children's error and no node, and the receiver keeps the merged
\* handler: nothing restores the handler it had before the call.
C9_NoRollback ==
    (MergeReturned /\ Compatible(lastMerge.n0, lastMerge.r)
        /\ handler_Merge(lastMerge.n0.handler, lastMerge.r.handler).err = NoErr
        /\ lastMerge.err # NoErr)
    => /\ lastMerge.ret = "nil"
       /\ lastMerge.err = children_merge(lastMerge.n0.children, lastMerge.r.children).err
       /\ self.handler = handler_Merge(lastMerge.n0.handler, lastMerge.r.handler).h

\* Merge failed in the children and the receiver is no longer the node it was
C9_Witness ==
    /\ phase = "merged"
    /\ lastMerge.err = conflictHandler
    /\ handler_Merge(lastMerge.n0.handler, lastMerge.r.handler).err = NoErr
    /\ self.handler # lastMerge.n0.handler
    /\ self # lastMerge.n0

\* the outcome of the two collaborator merges on the nodes of the last Merge
HandlerMergeOf(m) == handler_Merge(m.n0.handler, m.r.handler)
ChildrenMergeOf(m) == children_merge(m.n0.children, m.r.children)

\* C14: once the structural checks pass, handler.Merge is called first; when it
\* fails Merge returns its error, no node, and children.merge is never called;
\* otherwise children.merge is called next and when it fails Merge returns its
\* error and no node; when both succeed Merge returns the receiver and no error.
C14_MergeStepOrder ==
    (MergeReturned /\ Compatible(lastMerge.n0, lastMerge.r))
    => /\ HandlerMergeOf(lastMerge).err # NoErr
            => /\ lastMerge.calls = HandlerOnly
               /\ lastMerge.err = HandlerMergeOf(lastMerge).err
               /\ lastMerge.ret = "nil"
       /\ (HandlerMergeOf(lastMerge).err = NoErr /\ ChildrenMergeOf(lastMerge).err # NoErr)
            => /\ lastMerge.calls = HandlerThenChildren
               /\ lastMerge.err = ChildrenMergeOf(lastMerge).err
               /\ lastMerge.ret = "nil"
       /\ (HandlerMergeOf(lastMerge).err = NoErr /\ ChildrenMergeOf(lastMerge).err = NoErr)
            => /\ lastMerge.calls = HandlerThenChildren
               /\ lastMerge.err = NoErr
               /\ lastMerge.ret = "n"
               /\ self.handler = HandlerMergeOf(lastMerge).h
               /\ self.children = ChildrenMergeOf(lastMerge).children

\* the handler merge failed although the children alone would have merged, and
\* children.merge was not called: the receiver's children are as before
C14_Witness ==
    /\ MergeReturned /\ Compatible(lastMerge.n0, lastMerge.r)
    /\ lastMerge.err = conflictHandler
    /\ lastMerge.calls = HandlerOnly
    /\ lastMerge.r.children # <<>>
    /\ ChildrenMergeOf(lastMerge).err = NoErr
    /\ ChildrenMergeOf(lastMerge).children # lastMerge.n0.children
    /\ self.children = lastMerge.n0.children

\* C16 as stated: the error of a Merge of nodes of different concrete kinds
\* reports self's kind and other's kind, two values that tell the nodes apart.
C16_Original ==
    (MergeReturned /\ lastMerge.n0.type # lastMerge.r.type)
    => /\ lastMerge.err.type = "unknownRouterType"
       /\ lastMerge.err.args = <<Kind(lastMerge.n0), Kind(lastMerge.r)>>
       /\ lastMerge.err.args[1] # lastMerge.err.args[2]

\* C16 amended: the error of a Merge of nodes of different concrete types
\* reports two values that both describe other, its Kind() and the name of its
\* concrete type; nothing of self is reported.
C16_ReportsOtherKindAndType ==
    (MergeReturned /\ lastMerge.n0.type # lastMerge.r.type)
    => /\ lastMerge.err.type = "unknownRouterType"
       /\ lastMerge.err.args = <<Kind(lastMerge.r), TypeOf(lastMerge.r)>>

\* a pattern node was merged with a catch-all node: the reported kind is also
\* the receiver's own kind, only the type name tells the nodes apart
C16_Witness ==
    /\ MergeReturned
    /\ IsPattern(lastMerge.n0) /\ IsCatchAll(lastMerge.r)
    /\ lastMerge.err.args = <<"Regexp", "*router.fullMatchRegexpNode">>
    /\ Kind(lastMerge.n0) = lastMerge.err.args[1]

\* C19: a Merge that fails a structural check (type, pattern source or key)
\* has called neither handler.Merge nor children.merge, and leaves the receiver
\* and the other node as they were.
C19_StructuralFailureChangesNothing ==
    (MergeReturned /\ ~Compatible(lastMerge.n0, lastMerge.r))
    => /\ lastMerge.err.type \in {"unknownRouterType", "unmatchedRouterRegexp", "unmatchedRouterKey"}
       /\ lastMerge.calls = <<>>
       /\ self = lastMerge.n0
       /\ other = lastMerge.r

\* two pattern nodes with different sources whose handlers and children would
\* have merged into something new: the receiver is untouched
C19_Witness ==
    /\ MergeReturned
    /\ IsPattern(lastMerge.n0) /\ IsPattern(lastMerge.r)
    /\ lastMerge.n0.exp # lastMerge.r.exp
    /\ HandlerMergeOf(lastMerge).err = NoErr
    /\ HandlerMergeOf(lastMerge).h # lastMerge.n0.handler
    /\ ChildrenMergeOf(lastMerge).children # lastMerge.n0.children
    /\ lastMerge.err.type = "unmatchedRouterRegexp"
    /\ self = lastMerge.n0

-----------------------------------------------------------------------------
(* Properties of concurrent Match calls *)

\* what the call of caller t returns and leaves in its Container when it runs alone
Alone(t) ==
    Router_Match(self, call[t].ctx, [c |-> call[t].c0, log |-> <<>>], call[t].path, 0, call[t].f)

\* every call that has returned did so as the same call run alone
ReturnedAsAlone ==
    \A t \in Threads :
        pc[t] = "done"
        => /\ loc[t].e = Alone(t).e
           /\ loc[t].err = Alone(t).err
           /\ sinks[t] = Alone(t).st

\* C10: under every interleaving of concurrent Match calls the node stays as it
\* was built (pattern source, compiled pattern, capture indices, key, handler,
\* children), and each call returns the result, and leaves in its own Container
\* the contents, of the same call run alone.
C10_MatchIsReadOnly == self = built /\ ReturnedAsAlone

\* two callers are inside Match on the same node at once, one has written a
\* capture and the other has not returned yet; later both have returned with
\* different Containers
C10_Witness ==
    /\ pc[1] = "done" /\ pc[2] = "done"
    /\ loc[1].err = NoErr /\ loc[2].err # NoErr
    /\ sinks[1].c # EmptyContainer
    /\ sinks[2].c # sinks[1].c
    /\ Len(sinks[2].log) > 1

-----------------------------------------------------------------------------
(* Properties of the Pacer *)

\* this step is the return of Next in goroutine t: its paced task starts
Returns(t) == taskPc[t] = "released" /\ taskPc'[t] = "running"

\* this step is run taking the value goroutine t sends in Next
Releases(t) == taskPc[t] = "next" /\ taskPc'[t] = "released"

\* this step is run taking a value from the gate: a loop iteration begins
IterationBegins == runPc = "gate" /\ runPc' = "sleep"

\* Pause has returned and the matching Resume has not been called
PauseInForce == ctl = "paused"

\* C11: every iteration of the run loop releases exactly one goroutine
\* blocked in Next and none is released otherwise, and when Next returns a
\* second or later time run has completed its delay sleep since the return
\* before: two paced tasks never start within the same delay interval.
C11_OnePerDelay ==
    [][ /\ IterationBegins => Cardinality({t \in Tasks : Releases(t)}) = 1
        /\ \A t \in Tasks : Releases(t) => IterationBegins
        /\ \A t \in Tasks : Returns(t) => sinceRelease # "released"
      ]_vars

\* C12: while Pause has returned and the matching Resume has not been
\* called, Next returns in no goroutine: no paced task starts.
C12_NoStartWhilePaused ==
    [][PauseInForce => \A t \in Tasks : ~Returns(t)]_vars

\* C13: once Stop has closed the gate, a goroutine that is in Next stays in
\* Next: the call neither returns nor fails.
C13_HangsAfterStop ==
    [][\A t \in Tasks : gateClosed /\ taskPc[t] = "next" => taskPc'[t] = "next"]_vars

\* a Pause that returned was followed by a Resume that returned, and Stop
\* has not been called
Resumed == ctl = "resumed" /\ ~gateClosed

\* C17: with one Pause/Resume pair, a Pause or Resume that has begun can
\* always take its next step and run can always take back the value it put
\* in the pause channel; once Resume has returned run is not blocked on the
\* pause channel, and under fair scheduling every goroutine blocked in Next
\* returns from it unless Stop is called.
C17_ResumeContinues ==
    /\ [](ctl = "pausing" => ENABLED PauseSendPaused)
    /\ [](ctl = "paused" => ENABLED ResumeRecvPaused)
    /\ [](ctl = "resuming" => ENABLED ResumeRecvPause)
    /\ [](runPc = "recvPause" => ENABLED RunRecvPause)
    /\ [](ctl = "resumed" /\ runPc = "sendPause" => ENABLED RunSendPause)
    /\ \A t \in Tasks :
        [](Resumed /\ taskPc[t] = "next" => <>(taskPc[t] = "running" \/ gateClosed))

\* Resume has returned, run has slept and is about to pass the pause channel,
\* which is empty again, while a goroutine is blocked in Next
C17_Witness ==
    /\ Resumed
    /\ runPc = "sendPause"
    /\ pauseLen = 0
    /\ \E t \in Tasks : taskPc[t] = "next"

====
